---- MODULE Spec2Model ----
(***************************************************************************)
(* Model of the neutrons-ai/rose repository as shipped: the rose package   *)
(* stub (src/rose/__init__.py), the templated Click command main           *)
(* (src/package_name/cli.py) and the Python session of tests/test_cli.py   *)
(* that imports the command and invokes it through CliRunner.              *)
(*                                                                         *)
(* Text is modelled as sequences of one-character strings so that          *)
(* formatting (the f-string of the greeting, the newline click.echo adds)  *)
(* and substring tests ("Hello, AI!" in result.output) are computed.  The  *)
(* code point U+1F44B (waving hand) is the one-element string "U+1F44B".   *)
(***************************************************************************)
EXTENDS Integers, Sequences, FiniteSets, TLC

VARIABLES
    sysModules,    \* sys.modules: loaded module path -> namespace
    lastImport,    \* the last import statement of the session and its outcome
    mainBound,     \* TRUE once the session has bound the command main
    args,          \* argv of the current CliRunner.invoke
    name,          \* value of the name parameter passed to the callback
    pc,            \* position inside the invocation
    echoed,        \* messages passed to click.echo / written by Click, in order
    usageError,    \* the UsageError Click raised while parsing, if any
    exit_code      \* result.exit_code (NoExit while running)

vars == <<sysModules, lastImport, mainBound, args, name, pc, echoed,
          usageError, exit_code>>

----------------------------------------------------------------------------
(* Bounds of the model *)

MaxLen == 2
MaxArgs == 2

Alphabet == {"A", "I", "!"}

----------------------------------------------------------------------------
(* Text helpers *)

Newline == <<"\n">>

Contains(s, sub) ==
    \E i \in 0..(Len(s) - Len(sub)) : SubSeq(s, i + 1, i + Len(sub)) = sub

StartsWith(s, pre) ==
    Len(pre) <= Len(s) /\ SubSeq(s, 1, Len(pre)) = pre

BoundedSeq(S, n) == UNION {[1..k -> S] : k \in 0..n}

----------------------------------------------------------------------------
(* src/rose/__init__.py *)

RoseDoc == "ROSE - Reflectivity Open Science Engine."

RoseVersion ==
    <<"0", ".", "1", ".", "0">>

RoseAllExtra == [__doc__ |-> RoseDoc,
                 __version__ |-> RoseVersion,
                 __all__ |-> <<"__version__", "main">>,
                 main |-> "command"]

RoseNamespace == [__doc__ |-> RoseDoc,
                  __version__ |-> RoseVersion,
                  __all__ |-> <<"__version__">>]

----------------------------------------------------------------------------
(* src/package_name/cli.py *)

CliDoc == "Command-line interface for package_name."

CliNamespace == [__doc__ |-> CliDoc, click |-> "module", main |-> "command"]

\* The name tests/test_cli.py passes to --name.
WorldName ==
    <<"W", "o", "r", "l", "d">>

DefaultNameWorld ==
    <<"W", "o", "r", "l", "d">>

\* default="AI"
DefaultName ==
    <<"A", "I">>

CliVersionBumped ==
    <<"0", ".", "2", ".", "0">>

CliVersion ==
    <<"0", ".", "1", ".", "0">>

OptName ==
    <<"-", "-", "n", "a", "m", "e">>

OptVersion ==
    <<"-", "-", "v", "e", "r", "s", "i", "o", "n">>

OptHelp ==
    <<"-", "-", "h", "e", "l", "p">>

HelloPrefix ==
    <<"H", "e", "l", "l", "o", ",", " ">>

GreetingSuffix ==
    <<"!", " ", "U+1F44B">>

TemplateNotice ==
    <<"\n", "T", "h", "i", "s", " ", "i", "s", " ", "a", " ", "t", "e", "m",
      "p", "l", "a", "t", "e", " ", "C", "L", "I", ".", " ", "R", "e", "p",
      "l", "a", "c", "e", " ", "i", "t", " ", "w", "i", "t", "h", " ", "y",
      "o", "u", "r", " ", "o", "w", "n", " ", "c", "o", "m", "m", "a", "n",
      "d", "s", "!">>

CopilotTip ==
    <<"T", "i", "p", ":", " ", "A", "s", "k", " ", "C", "o", "p", "i", "l",
      "o", "t", " ", "t", "o", " ", "h", "e", "l", "p", " ", "y", "o", "u",
      " ", "a", "d", "d", " ", "f", "u", "n", "c", "t", "i", "o", "n", "a",
      "l", "i", "t", "y", " ", "h", "e", "r", "e", ".">>

GreetingDropsName(n) == HelloPrefix \o DefaultName \o GreetingSuffix

\* f"Hello, {name}! <wave>"
Greeting(n) == HelloPrefix \o n \o GreetingSuffix

ProgName ==
    <<"m", "a", "i", "n">>

\* Click's default version message "%(prog)s, version %(version)s"
VersionMessage == ProgName \o <<",", " ", "v", "e", "r", "s", "i", "o", "n", " ">> \o CliVersion

\* First line of the help page Click prints for --help; the rest of the page
\* (docstring and option table) is laid out by Click and is not modelled.
UsageLine ==
    <<"U", "s", "a", "g", "e", ":", " ", "m", "a", "i", "n", " ", "[", "O",
      "P", "T", "I", "O", "N", "S", "]">>

----------------------------------------------------------------------------
(* The source tree on sys.path and the import statement *)

RosePath == <<"rose">>
RoseCliPath == <<"rose", "cli">>
PackageNamePath == <<"package_name">>
PackageNameCliPath == <<"package_name", "cli">>

\* Modules that exist under src/: rose/__init__.py and package_name/cli.py
\* (package_name has no __init__.py and is a namespace package).
SourceTree == {RosePath, PackageNamePath, PackageNameCliPath}

ImportTargets == {RosePath, RoseCliPath, PackageNamePath, PackageNameCliPath}

\* The namespace left by executing the module's body.
ModuleBody(path) ==
    CASE path = RosePath -> RoseNamespace
      [] path = PackageNameCliPath -> CliNamespace
      [] OTHER -> <<>>

Prefix(path, j) == SubSeq(path, 1, j)

\* Number of leading components of a dotted path that resolve to a module.
Resolved(path) ==
    CHOOSE k \in 0..Len(path) :
        /\ \A j \in 1..k : Prefix(path, j) \in SourceTree
        /\ k < Len(path) => Prefix(path, k + 1) \notin SourceTree

\* sys.modules after importing the parents of path, then path itself; the
\* parents that were found stay loaded when a later component is missing.
Loaded(mods, path) ==
    LET new == {Prefix(path, j) : j \in 1..Resolved(path)}
    IN  [p \in (DOMAIN mods) \cup new |->
            IF p \in DOMAIN mods THEN mods[p] ELSE ModuleBody(p)]

\* Statements of the session run one at a time, between invocations.
SessionIdle == pc = "idle"

\* import a.b
Import(path) ==
    /\ SessionIdle
    /\ sysModules' = Loaded(sysModules, path)
    /\ lastImport' = [path |-> path,
                      result |-> IF Resolved(path) = Len(path)
                                   THEN "ok" ELSE "ModuleNotFoundError"]
    /\ UNCHANGED <<mainBound, args, name, pc, echoed, usageError, exit_code>>

\* from a.b import main
FromImportMain(path) ==
    /\ SessionIdle
    /\ sysModules' = Loaded(sysModules, path)
    /\ LET found == Resolved(path) = Len(path)
           hasMain == found /\ "main" \in DOMAIN ModuleBody(path)
       IN  /\ lastImport' = [path |-> path,
                            result |-> IF ~found THEN "ModuleNotFoundError"
                                       ELSE IF ~hasMain THEN "ImportError"
                                       ELSE "ok"]
           /\ mainBound' = (mainBound \/ hasMain)
    /\ UNCHANGED <<args, name, pc, echoed, usageError, exit_code>>

----------------------------------------------------------------------------
(* Click's handling of the command line declared at cli.py:15-17 *)

\* Values given to --name: every short string over the alphabet, the name of
\* the repository's test, and a name that begins with the default followed by
\* an exclamation mark.
Names == BoundedSeq(Alphabet, MaxLen) \cup {WorldName, DefaultName \o <<"!">>}

Tokens == Names \cup {OptName, OptVersion, OptHelp}

ArgLists == BoundedSeq(Tokens, MaxArgs)

OptionLike(tok) == Len(tok) > 1 /\ tok[1] = "-"

ParseStart == [error |-> "none", name |-> <<>>, eager |-> "none", largs |-> <<>>]

\* Left-to-right option parsing: --name consumes the next token whatever it
\* is, the last --name wins, the first eager flag (--version / --help) is the
\* one whose callback runs, other tokens are collected as extra arguments.
RECURSIVE ParseFrom(_, _)
ParseFrom(rargs, st) ==
    IF rargs = <<>> THEN st
    ELSE LET arg == Head(rargs)
             rest == Tail(rargs)
         IN  IF arg = OptName
               THEN IF rest = <<>>
                      THEN [st EXCEPT !.error = "BadOptionUsage"]
                      ELSE ParseFrom(Tail(rest), [st EXCEPT !.name = <<Head(rest)>>])
             ELSE IF arg = OptVersion
               THEN ParseFrom(rest, [st EXCEPT !.eager =
                                        IF @ = "none" THEN "version" ELSE @])
             ELSE IF arg = OptHelp
               THEN ParseFrom(rest, [st EXCEPT !.eager =
                                        IF @ = "none" THEN "help" ELSE @])
             ELSE IF OptionLike(arg)
               THEN [st EXCEPT !.error = "NoSuchOption"]
             ELSE ParseFrom(rest, [st EXCEPT !.largs = Append(@, arg)])

ParseArgs(a) == ParseFrom(a, ParseStart)

Running == <<>>
Exited(code) == <<code>>

\* runner.invoke(main, a): parse, run the eager callbacks, reject extra
\* arguments, then enter the callback with the name parameter.
CanInvoke == SessionIdle /\ mainBound

InvokeArgs(a) ==
    /\ CanInvoke
    /\ args' = a
    /\ LET p == ParseArgs(a)
       IN  IF p.error # "none"
             THEN /\ usageError' = p.error
                  /\ echoed' = <<>>
                  /\ name' = <<>>
                  /\ exit_code' = Exited(2)
                  /\ pc' = "exited"
           ELSE IF p.eager = "version"
             THEN /\ usageError' = "none"
                  /\ echoed' = <<VersionMessage>>
                  /\ name' = <<>>
                  /\ exit_code' = Exited(0)
                  /\ pc' = "exited"
           ELSE IF p.eager = "help"
             THEN /\ usageError' = "none"
                  /\ echoed' = <<UsageLine>>
                  /\ name' = <<>>
                  /\ exit_code' = Exited(0)
                  /\ pc' = "exited"
           ELSE IF p.largs # <<>>
             THEN /\ usageError' = "UnexpectedExtraArgument"
                  /\ echoed' = <<>>
                  /\ name' = <<>>
                  /\ exit_code' = Exited(2)
                  /\ pc' = "exited"
           ELSE /\ usageError' = "none"
                /\ echoed' = <<>>
                /\ name' = (IF p.name = <<>> THEN DefaultName ELSE p.name[1])
                /\ exit_code' = Running
                /\ pc' = "L29"
    /\ UNCHANGED <<sysModules, lastImport, mainBound>>

Invoke == CanInvoke /\ \E a \in ArgLists : InvokeArgs(a)

\* cli.py:29
Echo29 ==
    /\ pc = "L29"
    /\ echoed' = Append(echoed, Greeting(name))
    /\ pc' = "L30"
    /\ UNCHANGED <<sysModules, lastImport, mainBound, args, name,
                   usageError, exit_code>>

Echo30Tip ==
    /\ pc = "L30"
    /\ echoed' = Append(echoed, CopilotTip)
    /\ pc' = "L31"
    /\ UNCHANGED <<sysModules, lastImport, mainBound, args, name,
                   usageError, exit_code>>

\* cli.py:30
Echo30 ==
    /\ pc = "L30"
    /\ echoed' = Append(echoed, TemplateNotice)
    /\ pc' = "L31"
    /\ UNCHANGED <<sysModules, lastImport, mainBound, args, name,
                   usageError, exit_code>>

\* cli.py:31
Echo31 ==
    /\ pc = "L31"
    /\ echoed' = Append(echoed, CopilotTip)
    /\ pc' = "return"
    /\ UNCHANGED <<sysModules, lastImport, mainBound, args, name,
                   usageError, exit_code>>

\* The callback returns and Click exits the process with status 0.
Return ==
    /\ pc = "return"
    /\ exit_code' = Exited(0)
    /\ pc' = "exited"
    /\ UNCHANGED <<sysModules, lastImport, mainBound, args, name, echoed,
                   usageError>>

\* runner = CliRunner(): the next invocation starts from a fresh result.
NewRunner ==
    /\ pc = "exited"
    /\ args' = <<>>
    /\ name' = <<>>
    /\ echoed' = <<>>
    /\ usageError' = "none"
    /\ exit_code' = Running
    /\ pc' = "idle"
    /\ UNCHANGED <<sysModules, lastImport, mainBound>>

\* result.output: click.echo writes each message followed by a newline.
RECURSIVE Flatten(_)
Flatten(msgs) ==
    IF msgs = <<>> THEN <<>>
    ELSE Head(msgs) \o Newline \o Flatten(Tail(msgs))

Output == Flatten(echoed)

----------------------------------------------------------------------------

Init ==
    /\ sysModules = <<>>
    /\ lastImport = [path |-> <<>>, result |-> "none"]
    /\ mainBound = FALSE
    /\ args = <<>>
    /\ name = <<>>
    /\ pc = "idle"
    /\ echoed = <<>>
    /\ usageError = "none"
    /\ exit_code = Running

Next ==
    \/ \E path \in ImportTargets : Import(path)
    \/ \E path \in ImportTargets : FromImportMain(path)
    \/ Invoke
    \/ Echo29
    \/ Echo30
    \/ Echo31
    \/ Return
    \/ NewRunner

Spec == Init /\ [][Next]_vars

\* Once the callback is entered its statements run to completion: the body
\* of main is straight-line code with no blocking call.
FairSpec == Spec /\ WF_vars(Echo29 \/ Echo30 \/ Echo31 \/ Return)

----------------------------------------------------------------------------
(* Properties *)

HelloAI ==
    <<"H", "e", "l", "l", "o", ",", " ", "A", "I", "!">>

Bang == <<"!">>

NoArgs == <<>>

\* C1: invoking main with no arguments terminates with exit code 0 and an
\* output that contains "Hello, AI!" (the --name option defaults to "AI").
C1_DefaultGreeting ==
    /\ [](args = NoArgs /\ pc = "exited"
            => exit_code = Exited(0) /\ Contains(Output, HelloAI))
    /\ ((args = NoArgs /\ pc = "L29") ~> (args = NoArgs /\ pc = "exited"))

C1_Witness ==
    /\ args = NoArgs
    /\ pc = "exited"
    /\ exit_code = Exited(0)
    /\ Len(echoed) > 0

NameGiven == Len(args) = 2 /\ args[1] = OptName

\* C2 as stated: for every n, main --name n exits with code 0, prints
\* "Hello, n!" and does not print "Hello, AI!" unless n is "AI".
C2_Original ==
    (NameGiven /\ pc = "exited")
        => /\ exit_code = Exited(0)
           /\ Contains(Output, HelloPrefix \o args[2] \o Bang)
           /\ (args[2] # DefaultName => ~Contains(Output, HelloAI))

\* C2 amended: for every n, main --name n terminates with exit code 0 and
\* its greeting line is "Hello, n!" with n unchanged (the empty string
\* included); the output contains "Hello, AI!" exactly when that text occurs
\* in "Hello, n!": n is "AI", n begins with "AI!", or n followed by "!"
\* contains "Hello, AI!".
C2_CustomName ==
    /\ []((NameGiven /\ pc = "exited")
            => /\ exit_code = Exited(0)
               /\ echoed[1] = HelloPrefix \o args[2] \o GreetingSuffix
               /\ Contains(Output, HelloPrefix \o args[2] \o Bang)
               /\ (Contains(Output, HelloAI)
                     <=> \/ args[2] = DefaultName
                         \/ StartsWith(args[2], DefaultName \o Bang)
                         \/ Contains(args[2] \o Bang, HelloAI)))
    /\ ((NameGiven /\ pc = "L29") ~> (NameGiven /\ pc = "exited"))

C2_Witness ==
    /\ NameGiven
    /\ pc = "exited"
    /\ args[2] = DefaultName \o Bang
    /\ Contains(Output, HelloAI)


\* C3 as stated: main is importable from rose.cli, i.e. the statement
\* "from rose.cli import main" of tests/test_cli.py succeeds and binds main.
C3_ImportableFromRoseCli ==
    lastImport.path = RoseCliPath
        => (lastImport.result = "ok" /\ mainBound /\ RoseCliPath \in DOMAIN sysModules)

RoseLoaded == RosePath \in DOMAIN sysModules

CallbackRun ==
    LET p == ParseArgs(args)
    IN  mainBound /\ pc # "idle" /\ p.error = "none" /\ p.eager = "none"
        /\ p.largs = <<>>

ExpectedGreeting == HelloPrefix \o name \o GreetingSuffix

\* C9: every invocation that reaches the callback emits exactly three
\* messages in a fixed order: the greeting "Hello, <name>! <wave>", then a
\* blank line followed by the template notice, then the Copilot tip.  Only
\* the greeting depends on --name and the output is a function of the name,
\* so two invocations with the same name produce identical output.
C9_ThreeMessages ==
    CallbackRun =>
        /\ pc = "L29" => echoed = <<>>
        /\ pc = "L30" => echoed = <<ExpectedGreeting>>
        /\ pc = "L31" => echoed = <<ExpectedGreeting, TemplateNotice>>
        /\ pc \in {"return", "exited"} =>
              /\ echoed = <<ExpectedGreeting, TemplateNotice, CopilotTip>>
              /\ Head(TemplateNotice) = "\n"
              /\ Output = ExpectedGreeting \o Newline \o TemplateNotice
                            \o Newline \o CopilotTip \o Newline
        /\ pc = "exited" => exit_code = Exited(0)

C9_Witness ==
    /\ CallbackRun
    /\ pc = "exited"
    /\ Len(echoed) = 3
    /\ name = WorldName

EagerExit ==
    LET p == ParseArgs(args)
    IN  mainBound /\ pc = "exited" /\ p.error = "none" /\ p.eager # "none"

====
